---- MODULE Spec2Model ----
(***************************************************************************)
(* Model of smqtk_core.configuration: the Configurable interface and the   *)
(* helpers that build, export and resolve "standard" configuration         *)
(* dictionaries, together with the classes the unit tests run them on.     *)
(***************************************************************************)
EXTENDS Integers, Sequences, FiniteSets, TLC

(***************************************************************************)
(* Bounds of the model.                                                    *)
(***************************************************************************)
\* longest candidate iterable handed to a helper
MaxCands == 2
\* most sub-configuration blocks in a standard configuration dictionary
MaxBlocks == 2
\* most extra positional arguments handed to from_config_dict
MaxArgs == 2
\* the most parameters, besides self, of a generated constructor signature
MaxParams == 3

(***************************************************************************)
(* Python values.  Every value carries its type tag, so that values of     *)
(* different Python types are never equal.                                 *)
(***************************************************************************)
None == [t |-> "NoneType"]
IntV(i) == [t |-> "int", v |-> i]
StrV(s) == [t |-> "str", v |-> s]
FltV(s) == [t |-> "float", v |-> s]
BoolV(b) == [t |-> "bool", v |-> b]
\* a dict is a function from its (string) keys to values
Dict(f) == [t |-> "dict", v |-> f]
\* an instance of class c with its attributes
Obj(c, attrs) == [t |-> "object", cls |-> c, attrs |-> attrs]
\* a class given as a value
TypeVal(c) == [t |-> "type", cls |-> c]
\* inspect.Parameter.empty
Empty == [t |-> "empty"]

EmptyMap == [k \in {} |-> None]
IsDict(x) == x.t = "dict"

\* Python truth value of x, as `if x:` takes it
Truthy(x) ==
    CASE x.t = "NoneType" -> FALSE
      [] x.t = "bool" -> x.v
      [] x.t = "int" -> x.v # 0
      [] x.t = "str" -> x.v # ""
      [] x.t = "dict" -> DOMAIN x.v # {}
      [] OTHER -> TRUE

(***************************************************************************)
(* Results of a call: a returned value or a raised exception.              *)
(***************************************************************************)
Ok(v) == [kind |-> "ok", val |-> v]
Raise(exc, why, options) == [kind |-> exc, why |-> why, options |-> options]
IsOk(r) == r.kind = "ok"

(***************************************************************************)
(* Classes.  Each class has its defining module and name, its base class,  *)
(* the parameters of the __init__ it declares (NoInit when it declares     *)
(* none) and, for get_config, from_config and get_default_config, the      *)
(* name of the class whose body it declares ("" when it declares none and  *)
(* inherits).                                                              *)
(***************************************************************************)
POSITIONAL_ONLY == "POSITIONAL_ONLY"
POSITIONAL_OR_KEYWORD == "POSITIONAL_OR_KEYWORD"
VAR_POSITIONAL == "VAR_POSITIONAL"
KEYWORD_ONLY == "KEYWORD_ONLY"
VAR_KEYWORD == "VAR_KEYWORD"

Param(name, kind, default) == [name |-> name, kind |-> kind, default |-> default]
Self == Param("self", POSITIONAL_OR_KEYWORD, Empty)
\* a class that declares no __init__ of its own
NoInit == << Param("", "", Empty) >>

ClassRec(module, name, base, init, gc, fc, gdc) ==
    [module |-> module, name |-> name, base |-> base, init |-> init,
     get_config |-> gc, from_config |-> fc, get_default_config |-> gdc]

TestModule == "tests.test_configuration"

\* the builtin root class
PyObject == ClassRec("builtins", "object", "", NoInit, "", "", "")

\* class Configurable (metaclass=abc.ABCMeta); get_config is abstract
Configurable ==
    ClassRec("smqtk_core.configuration", "Configurable", "object", NoInit,
             "abstract", "Configurable", "Configurable")

\* class T1 (Configurable): __init__(self, foo=1, bar='baz')
T1 ==
    ClassRec(TestModule, "T1", "Configurable",
             << Self, Param("foo", POSITIONAL_OR_KEYWORD, IntV(1)),
                Param("bar", POSITIONAL_OR_KEYWORD, StrV("baz")) >>,
             "T1", "", "")

\* the T1() instance that is the default of T2's child parameter
T1Default == Obj("T1", [foo |-> IntV(1), bar |-> StrV("baz")])

\* class T2 (Configurable): __init__(self, child=T1(), alpha=0.0001,
\* beta='default'), overriding get_default_config and from_config
T2 ==
    ClassRec(TestModule, "T2", "Configurable",
             << Self, Param("child", POSITIONAL_OR_KEYWORD, T1Default),
                Param("alpha", POSITIONAL_OR_KEYWORD, FltV("0.0001")),
                Param("beta", POSITIONAL_OR_KEYWORD, StrV("default")) >>,
             "T2", "T2", "T2")

\* class T (Configurable): __init__(self, a, b, cat); no get_config
T_abc ==
    ClassRec(TestModule, "T", "Configurable",
             << Self, Param("a", POSITIONAL_OR_KEYWORD, Empty),
                Param("b", POSITIONAL_OR_KEYWORD, Empty),
                Param("cat", POSITIONAL_OR_KEYWORD, Empty) >>,
             "", "", "")

\* class T (Configurable): __init__(self, a, *, b=0); no get_config
T_kwonly ==
    ClassRec(TestModule, "T", "Configurable",
             << Self, Param("a", POSITIONAL_OR_KEYWORD, Empty),
                Param("b", KEYWORD_ONLY, IntV(0)) >>,
             "", "", "")

\* a conforming class with the constructor of T above, __init__(self, a, b, cat):
\* get_config is implemented, so that the class can be instantiated
T_concrete ==
    ClassRec(TestModule, "T_concrete", "Configurable",
             << Self, Param("a", POSITIONAL_OR_KEYWORD, Empty),
                Param("b", POSITIONAL_OR_KEYWORD, Empty),
                Param("cat", POSITIONAL_OR_KEYWORD, Empty) >>,
             "attributes", "", "")

\* a conforming class whose first parameter is of the positional-only kind
\* _param_map_func retains: __init__(self, a, /, b=0, **kwargs)
T_positional_only ==
    ClassRec(TestModule, "T_positional_only", "Configurable",
             << Self, Param("a", POSITIONAL_ONLY, Empty),
                Param("b", POSITIONAL_OR_KEYWORD, IntV(0)),
                Param("kwargs", VAR_KEYWORD, Empty) >>,
             "attributes", "", "")

\* class T (Configurable): __init__(self, a, b, cat, *args, **kwargs)
T_star ==
    ClassRec(TestModule, "T", "Configurable",
             << Self, Param("a", POSITIONAL_OR_KEYWORD, Empty),
                Param("b", POSITIONAL_OR_KEYWORD, Empty),
                Param("cat", POSITIONAL_OR_KEYWORD, Empty),
                Param("args", VAR_POSITIONAL, Empty),
                Param("kwargs", VAR_KEYWORD, Empty) >>,
             "", "", "")

\* class T (Configurable): __init__(self, a, b, c=0, d='foobar')
T_defaults ==
    ClassRec(TestModule, "T", "Configurable",
             << Self, Param("a", POSITIONAL_OR_KEYWORD, Empty),
                Param("b", POSITIONAL_OR_KEYWORD, Empty),
                Param("c", POSITIONAL_OR_KEYWORD, IntV(0)),
                Param("d", POSITIONAL_OR_KEYWORD, StrV("foobar")) >>,
             "", "", "")

\* class T (Configurable): __init__(self, a, b, c=0, d='foobar', *args,
\* **kwargs)
T_defaults_star ==
    ClassRec(TestModule, "T", "Configurable",
             << Self, Param("a", POSITIONAL_OR_KEYWORD, Empty),
                Param("b", POSITIONAL_OR_KEYWORD, Empty),
                Param("c", POSITIONAL_OR_KEYWORD, IntV(0)),
                Param("d", POSITIONAL_OR_KEYWORD, StrV("foobar")),
                Param("args", VAR_POSITIONAL, Empty),
                Param("kwargs", VAR_KEYWORD, Empty) >>,
             "", "", "")

\* class NoInitExample (Configurable): pass
NoInitExample ==
    ClassRec(TestModule, "NoInitExample", "Configurable", NoInit, "", "", "")

\* class SomeConfigurableType (Configurable): get_config(self) -> ...
SomeConfigurableType ==
    ClassRec(TestModule, "SomeConfigurableType", "Configurable", NoInit,
             "SomeConfigurableType", "", "")

\* class SomeOtherClassType (object): pass
SomeOtherClassType ==
    ClassRec(TestModule, "SomeOtherClassType", "object", NoInit, "", "", "")

\* class NotConfigurable (object)
NotConfigurable ==
    ClassRec(TestModule, "NotConfigurable", "object", NoInit, "", "", "")

\* A class whose constructor takes a parameter that get_config leaves out
\* and whose from_config takes it as an additional positional argument:
\* __init__(self, dep, gain=1); from_config(cls, config_dict, dep,
\* merge_default=True); get_config -> {'gain': self.gain}
WithRuntimeArg ==
    ClassRec(TestModule, "WithRuntimeArg", "Configurable",
             << Self, Param("dep", POSITIONAL_OR_KEYWORD, Empty),
                Param("gain", POSITIONAL_OR_KEYWORD, IntV(1)) >>,
             "WithRuntimeArg", "WithRuntimeArg", "WithRuntimeArg")

\* class T1Child (T1): pass -- a subclass that declares nothing of its own
T1Child == ClassRec(TestModule, "T1Child", "T1", NoInit, "", "", "")

\* the metaclasses: type, and abc.ABCMeta of Configurable and its subclasses
PyType == ClassRec("builtins", "type", "object", NoInit, "", "", "")
ABCMeta == ClassRec("abc", "ABCMeta", "type", NoInit, "", "", "")

ClassTable ==
    [object |-> PyObject, type |-> PyType, ABCMeta |-> ABCMeta, Configurable |-> Configurable, T1 |-> T1, T2 |-> T2,
     T_abc |-> T_abc, T_kwonly |-> T_kwonly, T_star |-> T_star,
     T_defaults |-> T_defaults, T_defaults_star |-> T_defaults_star,
     NoInitExample |-> NoInitExample,
     SomeConfigurableType |-> SomeConfigurableType,
     SomeOtherClassType |-> SomeOtherClassType,
     NotConfigurable |-> NotConfigurable, WithRuntimeArg |-> WithRuntimeArg,
     T1Child |-> T1Child, T_concrete |-> T_concrete,
     T_positional_only |-> T_positional_only]

Classes == DOMAIN ClassTable

\* the method resolution order of c: c, its base, ..., object
RECURSIVE Mro(_)
Mro(c) == IF ClassTable[c].base = "" THEN << c >> ELSE << c >> \o Mro(ClassTable[c].base)

\* whether the class base is in the MRO mro
InMro(mro, base) == \E i \in DOMAIN mro : mro[i] = base

\* issubclass(c, base)
IsSubclass(c, base) == InMro(Mro(c), base)

\* the first class of the MRO mro that declares the attribute, "" when none does
FirstDeclaring(mro, attr) ==
    IF \A i \in DOMAIN mro : ClassTable[mro[i]][attr] = "" THEN ""
    ELSE mro[CHOOSE i \in DOMAIN mro :
                /\ ClassTable[mro[i]][attr] # ""
                /\ \A j \in 1..(i - 1) : ClassTable[mro[j]][attr] = ""]

\* the class c.attr is found in
DeclaredIn(c, attr) == FirstDeclaring(Mro(c), attr)

\* the body class d declares for the attribute
BodyIn(d, attr) == IF d = "" THEN "" ELSE ClassTable[d][attr]

\* the body of c.attr, "" when no class of the MRO declares it
Lookup(c, attr) == BodyIn(DeclaredIn(c, attr), attr)

\* the first class of the MRO mro that declares an __init__ ("object" when
\* none does)
FirstInit(mro) ==
    IF \A i \in DOMAIN mro : ClassTable[mro[i]].init = NoInit THEN "object"
    ELSE mro[CHOOSE i \in DOMAIN mro :
                /\ ClassTable[mro[i]].init # NoInit
                /\ \A j \in 1..(i - 1) : ClassTable[mro[j]].init = NoInit]

\* the class cls.__init__ is found in
InitClass(c) == FirstInit(Mro(c))

\* isinstance(cls.__init__, (types.MethodType, types.FunctionType)): true of an
\* __init__ written in Python, false of object's slot wrapper
InitIsFunction(c) == InitClass(c) # "object"

\* abc: a class with an abstract method left unimplemented cannot be instantiated
IsAbstract(c) == Lookup(c, "get_config") = "abstract"

(***************************************************************************)
(* Type identifiers and default configurations.                            *)
(***************************************************************************)
\* the key without the defining module: t.__name__
_type_to_key_name_only(t) == ClassTable[t].name

\* f"{t.__module__}.{t.__name__}"
_type_to_key(t) == ClassTable[t].module \o "." \o ClassTable[t].name

\* the kinds of parameter _param_map_func retains
keep_kinds == {POSITIONAL_ONLY, POSITIONAL_OR_KEYWORD, KEYWORD_ONLY}

\* the index in the signature func of the parameter named k
ParamAt(func, k) == CHOOSE i \in DOMAIN func : func[i].name = k

\* _param_map_func retaining the parameters of every kind
_param_map_func_all_kinds(func) ==
    Dict([k \in {func[i].name : i \in {j \in DOMAIN func : func[j].name # "self"}} |->
            IF func[ParamAt(func, k)].default = Empty
            THEN None
            ELSE func[ParamAt(func, k)].default])

\* the parameter names and defaults of the signature func, as a dict
_param_map_func(func) ==
    Dict([k \in {func[i].name : i \in {j \in DOMAIN func :
                        func[j].name # "self" /\ func[j].kind \in keep_kinds}} |->
            IF func[ParamAt(func, k)].default = Empty
            THEN None
            ELSE func[ParamAt(func, k)].default])

\* get_default_config looking only at the __init__ the class itself declares
BaseGetDefaultConfig_own_init(cls) ==
    IF ClassTable[cls].init # NoInit
    THEN _param_map_func(ClassTable[cls].init)
    ELSE Dict(EmptyMap)

\* Configurable.get_default_config, the base implementation
BaseGetDefaultConfig(cls) ==
    IF InitIsFunction(cls)
    THEN _param_map_func(ClassTable[InitClass(cls)].init)
    ELSE Dict(EmptyMap)

\* T2.get_default_config: default['child'] = default['child'].get_default_config()
T2GetDefaultConfig(default) ==
    Dict([default.v EXCEPT !["child"] = BaseGetDefaultConfig(@.cls)])

\* WithRuntimeArg.get_default_config: the runtime-only parameter is left out
WithRuntimeArgGetDefaultConfig(default) ==
    Dict([k \in DOMAIN default.v \ {"dep"} |-> default.v[k]])

\* the get_default_config of body `body`, run on class cls
GetDefaultConfigBody(body, cls) ==
    CASE body = "T2" -> T2GetDefaultConfig(BaseGetDefaultConfig(cls))
      [] body = "WithRuntimeArg" ->
            WithRuntimeArgGetDefaultConfig(BaseGetDefaultConfig(cls))
      [] OTHER -> BaseGetDefaultConfig(cls)

\* cls.get_default_config(), through the overrides of the classes
get_default_config(cls) ==
    GetDefaultConfigBody(Lookup(cls, "get_default_config"), cls)

(***************************************************************************)
(* smqtk_core.dict.merge_dict: b merged on top of a, recursing into the    *)
(* nested mappings both have, neither input changed.                       *)
(***************************************************************************)
RECURSIVE MergeMaps(_, _)
MergeMaps(a, b) ==
    [k \in DOMAIN a \cup DOMAIN b |->
        IF k \notin DOMAIN b THEN a[k]
        ELSE IF k \in DOMAIN a /\ IsDict(a[k]) /\ IsDict(b[k])
             THEN Dict(MergeMaps(a[k].v, b[k].v))
             ELSE b[k]]

\* merge_dict(a, b): fails when an argument is no mapping
merge_dict(a, b) ==
    IF IsDict(a) /\ IsDict(b)
    THEN Ok(Dict(MergeMaps(a.v, b.v)))
    ELSE Raise("TypeError", "not-a-mapping", {})

(***************************************************************************)
(* Calls.  A call made while a helper runs is recorded with the function,  *)
(* the class it is made on, its positional and its keyword arguments.      *)
(***************************************************************************)
Call(fn, cls, pos, kw) == [fn |-> fn, cls |-> cls, pos |-> pos, kw |-> kw]

\* the names of the parameters of the signature func a keyword argument can bind
KeywordNames(func) ==
    {func[i].name : i \in {j \in DOMAIN func :
        func[j].name # "self"
        /\ func[j].kind \in {POSITIONAL_OR_KEYWORD, KEYWORD_ONLY}}}

\* the parameters without a default that the keyword arguments kw leave unbound
MissingParams(func, kw) ==
    {func[i].name : i \in {j \in DOMAIN func :
        /\ func[j].name # "self"
        /\ func[j].kind \in keep_kinds
        /\ func[j].default = Empty
        /\ (func[j].kind = POSITIONAL_ONLY \/ func[j].name \notin DOMAIN kw)}}

\* the binding of the keyword arguments kw to the signature func
BindKeywords(cls, kw, func) ==
    IF DOMAIN kw \ KeywordNames(func) # {}
        /\ \A i \in DOMAIN func : func[i].kind # VAR_KEYWORD
    THEN Raise("TypeError", "unexpected-keyword", DOMAIN kw \ KeywordNames(func))
    ELSE IF MissingParams(func, kw) # {}
    THEN Raise("TypeError", "missing-argument", MissingParams(func, kw))
    ELSE Ok(Obj(cls, [k \in KeywordNames(func) |->
                        IF k \in DOMAIN kw THEN kw[k]
                        ELSE func[ParamAt(func, k)].default]))

\* cls(**kw): the binding of the keyword arguments to the signature of
\* cls.__init__ and the attributes __init__ stores
Construct(cls, kw) ==
    IF IsAbstract(cls)
    THEN Raise("TypeError", "abstract-class", {})
    ELSE IF ~InitIsFunction(cls)
    THEN IF DOMAIN kw = {}
         THEN Ok(Obj(cls, EmptyMap))
         ELSE Raise("TypeError", "takes-no-arguments", DOMAIN kw)
    ELSE BindKeywords(cls, kw, ClassTable[InitClass(cls)].init)

\* T2.get_config once self.child.get_config() has ended as child
T2GetConfig(inst, child) ==
    IF ~IsOk(child) THEN child
    ELSE Ok(Dict([child |-> child.val, alpha |-> inst.attrs["alpha"],
                  beta |-> inst.attrs["beta"]]))

\* the get_config of body `body`, run on instance inst
RECURSIVE GetConfigBody(_, _)
GetConfigBody(body, inst) ==
    CASE body = "T1" ->
            Ok(Dict([foo |-> inst.attrs["foo"], bar |-> inst.attrs["bar"]]))
      [] body = "T2" ->
            \* 'child': self.child.get_config()
            IF inst.attrs["child"].t # "object"
            THEN Raise("AttributeError", "get_config", {})
            ELSE T2GetConfig(inst,
                    GetConfigBody(Lookup(inst.attrs["child"].cls, "get_config"),
                                  inst.attrs["child"]))
      [] body = "WithRuntimeArg" -> Ok(Dict([gain |-> inst.attrs["gain"]]))
      [] body = "SomeConfigurableType" -> Ok(None)
      \* a get_config that returns the stored constructor arguments
      [] body = "attributes" -> Ok(Dict(inst.attrs))
      [] OTHER -> Raise("AttributeError", "get_config", {})

\* inst.get_config(), through the implementations of the classes; a value
\* that is no instance of a class of the table has no such attribute
get_config(inst) ==
    GetConfigBody(IF inst.t = "object" THEN Lookup(inst.cls, "get_config") ELSE "", inst)

(***************************************************************************)
(* from_config.  A from_config returns its result, the calls it made and   *)
(* `arg`: the mapping the caller passed, as it is after the call.          *)
(***************************************************************************)
Outcome(ret, calls, arg) == [ret |-> ret, calls |-> calls, arg |-> arg]

\* the merge_default parameter of a from_config called with the positional
\* arguments pos, merge_default being its i-th
MergeDefaultArg(pos, i) == IF Len(pos) >= i THEN pos[i] ELSE BoolV(TRUE)

\* the merge step with the defaults merged on top of the configuration
MergeStep_defaults_on_top(cls, config_dict, merge_default) ==
    IF Truthy(merge_default)
    THEN merge_dict(config_dict, get_default_config(cls))
    ELSE Ok(config_dict)

\* the merge step as a dict update, nested mappings replaced whole
MergeStep_shallow(cls, config_dict, merge_default) ==
    IF Truthy(merge_default)
    THEN IF IsDict(config_dict)
         THEN Ok(Dict(config_dict.v @@ get_default_config(cls).v))
         ELSE Raise("TypeError", "not-a-mapping", {})
    ELSE Ok(config_dict)

\* if merge_default: config_dict = merge_dict(cls.get_default_config(), config_dict)
MergeStep(cls, config_dict, merge_default) ==
    IF Truthy(merge_default)
    THEN merge_dict(get_default_config(cls), config_dict)
    ELSE Ok(config_dict)

\* the construction with a constructor's error wrapped into a ValueError
BaseConstruct_wrapping(cls, pos, merged) ==
    IF ~IsOk(merged)
    THEN Outcome(merged, << >>, pos[1])
    ELSE IF ~IsDict(merged.val)
    THEN Outcome(Raise("TypeError", "not-a-mapping", {}), << >>, pos[1])
    ELSE Outcome(IF IsOk(Construct(cls, merged.val.v))
                 THEN Construct(cls, merged.val.v)
                 ELSE Raise("ValueError", "invalid-configuration", {}),
                 << Call("__init__", cls, << >>, merged.val.v) >>, pos[1])

\* return cls(**config_dict), merged being the outcome of the merge step
BaseConstruct(cls, pos, merged) ==
    IF ~IsOk(merged)
    THEN Outcome(merged, << >>, pos[1])
    ELSE IF ~IsDict(merged.val)
    THEN Outcome(Raise("TypeError", "not-a-mapping", {}), << >>, pos[1])
    ELSE Outcome(Construct(cls, merged.val.v),
                 << Call("__init__", cls, << >>, merged.val.v) >>, pos[1])

\* Configurable.from_config(cls, config_dict, merge_default=True), called with
\* the positional arguments pos
BaseFromConfig(cls, pos) ==
    IF Len(pos) > 2
    THEN Outcome(Raise("TypeError", "too-many-positional", {}), << >>, pos[1])
    ELSE BaseConstruct(cls, pos, MergeStep(cls, pos[1], MergeDefaultArg(pos, 2)))

\* return super().from_config(config, merge_default) of T2.from_config:
\* child is the outcome of T1.from_config, config the caller's mapping with
\* the child put in, super the outcome of the base from_config
T2Super(pos, child, config, super) ==
    Outcome(super.ret,
            << Call("from_config", "T1", << pos[1].v["child"] >>, EmptyMap) >>
                \o child.calls
                \o << Call("from_config", "Configurable",
                           << config, MergeDefaultArg(pos, 2) >>, EmptyMap) >>
                \o super.calls,
            config)

\* config['child'] = <the child constructed>, in the caller's mapping
T2SetChild(cls, pos, child, config) ==
    T2Super(pos, child, config,
            BaseFromConfig(cls, << config, MergeDefaultArg(pos, 2) >>))

\* T2.from_config once T1.from_config(config['child']) has ended as child
T2WithChild(cls, pos, child) ==
    IF ~IsOk(child.ret)
    THEN Outcome(child.ret,
                 << Call("from_config", "T1", << pos[1].v["child"] >>, EmptyMap) >>
                    \o child.calls,
                 pos[1])
    ELSE T2SetChild(cls, pos, child,
                    Dict([pos[1].v EXCEPT !["child"] = child.ret.val]))

\* T2.from_config(cls, config, merge_default=True):
\*     config['child'] = T1.from_config(config['child'])
\*     return super().from_config(config, merge_default)
T2FromConfig(cls, pos) ==
    IF Len(pos) > 2
    THEN Outcome(Raise("TypeError", "too-many-positional", {}), << >>, pos[1])
    ELSE IF ~IsDict(pos[1])
    THEN Outcome(Raise("TypeError", "not-subscriptable", {}), << >>, pos[1])
    ELSE IF "child" \notin DOMAIN pos[1].v
    THEN Outcome(Raise("KeyError", "child", {}), << >>, pos[1])
    ELSE T2WithChild(cls, pos, BaseFromConfig("T1", << pos[1].v["child"] >>))

\* return super().from_config(config_dict, merge_default=merge_default) of
\* WithRuntimeArg.from_config: config the copy with 'dep' put in
WithRuntimeArgSuper(pos, config, super) ==
    Outcome(super.ret,
            << Call("from_config", "Configurable",
                    << config, MergeDefaultArg(pos, 3) >>, EmptyMap) >>
                \o super.calls,
            pos[1])

\* config_dict['dep'] = dep, in the copy
WithRuntimeArgSetDep(cls, pos, config) ==
    WithRuntimeArgSuper(pos, config,
                        BaseFromConfig(cls, << config, MergeDefaultArg(pos, 3) >>))

\* WithRuntimeArg.from_config(cls, config_dict, dep, merge_default=True), after
\* the pattern the documentation of Configurable.from_config gives:
\*     config_dict = dict(config_dict)
\*     if merge_default: config_dict = merge_dict(cls.get_default_config(), config_dict)
\*     config_dict['dep'] = dep
\*     return super().from_config(config_dict, merge_default=merge_default)
WithRuntimeArgFromConfig(cls, pos) ==
    IF Len(pos) < 2
    THEN Outcome(Raise("TypeError", "missing-argument", {"dep"}), << >>, pos[1])
    ELSE IF Len(pos) > 3
    THEN Outcome(Raise("TypeError", "too-many-positional", {}), << >>, pos[1])
    ELSE IF ~IsDict(pos[1])
    THEN Outcome(Raise("TypeError", "not-a-mapping", {}), << >>, pos[1])
    ELSE WithRuntimeArgSetDep(cls, pos,
            Dict(("dep" :> pos[2])
                    @@ MergeStep(cls, pos[1], MergeDefaultArg(pos, 3)).val.v))

\* the from_config of body `body`, called on class cls with the positional
\* arguments pos
FromConfigBody(body, cls, pos) ==
    CASE body = "T2" -> T2FromConfig(cls, pos)
      [] body = "WithRuntimeArg" -> WithRuntimeArgFromConfig(cls, pos)
      [] body = "Configurable" -> BaseFromConfig(cls, pos)
      [] OTHER -> Outcome(Raise("AttributeError", "from_config", {}), << >>, pos[1])

\* cls.from_config(*pos), through the overrides of the classes
from_config(cls, pos) == FromConfigBody(Lookup(cls, "from_config"), cls, pos)

\* a == b of Python on the values of the model: mappings are equal when they
\* have the same keys and equal values; an instance of the classes here, which
\* define no __eq__, equals only itself, and the values compared are never the
\* same instance twice
RECURSIVE PyEq(_, _)
PyEq(a, b) ==
    IF IsDict(a) /\ IsDict(b)
    THEN /\ DOMAIN a.v = DOMAIN b.v
         /\ \A k \in DOMAIN a.v : PyEq(a.v[k], b.v[k])
    ELSE IF a.t = "object" \/ b.t = "object"
    THEN FALSE
    ELSE a = b

(***************************************************************************)
(* The helpers on standard configuration dictionaries.                     *)
(***************************************************************************)
\* the loop of make_default_config from its i-th candidate on, d the
\* dictionary built so far
RECURSIVE MakeDefaultLoop(_, _, _)
MakeDefaultLoop(d, configurable_iter, i) ==
    IF i > Len(configurable_iter) THEN Ok(Dict(d))
    ELSE LET cls == configurable_iter[i]
         IN IF ~IsSubclass(cls, "Configurable")
            THEN Raise("AssertionError", "invalid-configurable-type", {cls})
            ELSE MakeDefaultLoop(
                    [k \in DOMAIN d \cup {_type_to_key(cls)} |->
                        IF k = _type_to_key(cls) THEN get_default_config(cls) ELSE d[k]],
                    configurable_iter, i + 1)

\* make_default_config that selects the candidate when there is only one
make_default_config_selecting(configurable_iter) ==
    MakeDefaultLoop(
        "type" :> (IF Len(configurable_iter) = 1
                   THEN StrV(_type_to_key(configurable_iter[1]))
                   ELSE None),
        configurable_iter, 1)

make_default_config(configurable_iter) ==
    MakeDefaultLoop("type" :> None, configurable_iter, 1)

\* cls_conf_to_config_dict naming the type by the class name alone
cls_conf_to_config_dict_short_type(cls, conf) ==
    LET cls_key == _type_to_key(cls)
    IN Dict([k \in {"type", cls_key} |->
                IF k = cls_key THEN conf ELSE StrV(ClassTable[cls].name)])

cls_conf_to_config_dict(cls, conf) ==
    LET cls_key == _type_to_key(cls)
    IN Dict([k \in {"type", cls_key} |-> IF k = cls_key THEN conf ELSE StrV(cls_key)])

\* c_inst.__class__: the class of an instance, the metaclass of a class, the
\* builtin type of any other value
ClassOf(c_inst) ==
    CASE c_inst.t = "object" -> c_inst.cls
      [] c_inst.t = "type" ->
            IF IsSubclass(c_inst.cls, "Configurable") THEN "ABCMeta" ELSE "type"
      [] OTHER -> "object"

\* return cls_conf_to_config_dict(c_class, c_inst.get_config()), conf being
\* what get_config returned or raised
ExportConfig(c_class, conf) ==
    [ret |-> IF IsOk(conf) THEN Ok(cls_conf_to_config_dict(c_class, conf.val)) ELSE conf,
     calls |-> << Call("get_config", c_class, << >>, EmptyMap) >>]

\* to_config_dict refusing only what is both a type and non-conforming
to_config_dict_and(c_inst) ==
    IF c_inst.t = "type" /\ ~IsSubclass(ClassOf(c_inst), "Configurable")
    THEN [ret |-> Raise("ValueError", "not-a-configurable-instance", {}),
          calls |-> << >>]
    ELSE ExportConfig(ClassOf(c_inst), get_config(c_inst))

\* to_config_dict keyed by the class that declares get_config
to_config_dict_declaring(c_inst) ==
    IF c_inst.t = "type" \/ ~IsSubclass(ClassOf(c_inst), "Configurable")
    THEN [ret |-> Raise("ValueError", "not-a-configurable-instance", {}),
          calls |-> << >>]
    ELSE ExportConfig(DeclaredIn(ClassOf(c_inst), "get_config"), get_config(c_inst))

\* to_config_dict(c_inst): the result and the calls made
to_config_dict(c_inst) ==
    IF c_inst.t = "type" \/ ~IsSubclass(ClassOf(c_inst), "Configurable")
    THEN [ret |-> Raise("ValueError", "not-a-configurable-instance", {}),
          calls |-> << >>]
    ELSE ExportConfig(ClassOf(c_inst), get_config(c_inst))

\* the candidate map keeping the first candidate of a key
TypeMap_first_wins(type_iter) ==
    [k \in {_type_to_key(type_iter[i]) : i \in DOMAIN type_iter} |->
        LET at == {i \in DOMAIN type_iter : _type_to_key(type_iter[i]) = k}
        IN type_iter[CHOOSE i \in at : \A j \in at : i <= j]]

\* dict(map(lambda t: (_type_to_key(t), t), type_iter)): a later candidate
\* replaces an earlier one of the same key
TypeMap(type_iter) ==
    [k \in {_type_to_key(type_iter[i]) : i \in DOMAIN type_iter} |->
        LET at == {i \in DOMAIN type_iter : _type_to_key(type_iter[i]) = k}
        IN type_iter[CHOOSE i \in at : \A j \in at : j <= i]]

\* cls_conf_from_config_dict with the candidate lookup tested before the
\* configuration block
cls_conf_from_config_dict_swapped(config, type_iter) ==
    LET conf_type_name == config.v["type"]
        type_map == TypeMap(type_iter)
        conf_type_options == DOMAIN config.v \ {"type"}
    IN  IF "type" \notin DOMAIN config.v
        THEN Raise("ValueError", "missing-type", {})
        ELSE IF conf_type_name = None
        THEN Raise("ValueError", "unset-type", conf_type_options)
        ELSE IF conf_type_name.v \notin DOMAIN type_map
        THEN Raise("ValueError", "unknown-implementation", DOMAIN type_map)
        ELSE IF conf_type_name.v \notin conf_type_options
        THEN Raise("ValueError", "no-config-block", conf_type_options)
        ELSE Ok(<< type_map[conf_type_name.v], config.v[conf_type_name.v] >>)

\* cls_conf_from_config_dict returning the whole configuration for the block
cls_conf_from_config_dict_whole(config, type_iter) ==
    LET conf_type_name == config.v["type"]
        type_map == TypeMap(type_iter)
        conf_type_options == DOMAIN config.v \ {"type"}
    IN  IF "type" \notin DOMAIN config.v
        THEN Raise("ValueError", "missing-type", {})
        ELSE IF conf_type_name = None
        THEN Raise("ValueError", "unset-type", conf_type_options)
        ELSE IF conf_type_name.v \notin conf_type_options
        THEN Raise("ValueError", "no-config-block", conf_type_options)
        ELSE IF conf_type_name.v \notin DOMAIN type_map
        THEN Raise("ValueError", "unknown-implementation", DOMAIN type_map)
        ELSE Ok(<< type_map[conf_type_name.v], config >>)

\* cls_conf_from_config_dict with "type" left among the block options
cls_conf_from_config_dict_all_keys(config, type_iter) ==
    LET conf_type_name == config.v["type"]
        type_map == TypeMap(type_iter)
        conf_type_options == DOMAIN config.v
    IN  IF "type" \notin DOMAIN config.v
        THEN Raise("ValueError", "missing-type", {})
        ELSE IF conf_type_name = None
        THEN Raise("ValueError", "unset-type", conf_type_options)
        ELSE IF conf_type_name.v \notin conf_type_options
        THEN Raise("ValueError", "no-config-block", conf_type_options)
        ELSE IF conf_type_name.v \notin DOMAIN type_map
        THEN Raise("ValueError", "unknown-implementation", DOMAIN type_map)
        ELSE Ok(<< type_map[conf_type_name.v], config.v[conf_type_name.v] >>)

cls_conf_from_config_dict(config, type_iter) ==
    LET conf_type_name == config.v["type"]
        type_map == TypeMap(type_iter)
        conf_type_options == DOMAIN config.v \ {"type"}
    IN  IF "type" \notin DOMAIN config.v
        THEN Raise("ValueError", "missing-type", {})
        ELSE IF conf_type_name = None
        THEN Raise("ValueError", "unset-type", conf_type_options)
        ELSE IF conf_type_name.v \notin conf_type_options
        THEN Raise("ValueError", "no-config-block", conf_type_options)
        ELSE IF conf_type_name.v \notin DOMAIN type_map
        THEN Raise("ValueError", "unknown-implementation", DOMAIN type_map)
        ELSE Ok(<< type_map[conf_type_name.v], config.v[conf_type_name.v] >>)

\* return cls.from_config(cls_conf, *args) of from_config_dict: pos are the
\* positional arguments of the from_config, made its outcome, whose `arg` is
\* the selected block after it
FromConfigDictReturn(config, resolved, pos, made) ==
    Outcome(made.ret,
            << Call("from_config", resolved.val[1], pos, EmptyMap) >> \o made.calls,
            Dict([config.v EXCEPT ![config.v["type"].v] = made.arg]))

\* cls.from_config(*pos) of from_config_dict
FromConfigDictCall(config, resolved, pos) ==
    FromConfigDictReturn(config, resolved, pos, from_config(resolved.val[1], pos))

\* from_config_dict without the assertion on the resolved type
FromConfigDictResolved_unasserted(config, args, resolved) ==
    IF ~IsOk(resolved)
    THEN Outcome(resolved, << >>, config)
    ELSE FromConfigDictCall(config, resolved, << resolved.val[2] >> \o args)

\* from_config_dict calling from_config without the extra arguments
FromConfigDictResolved_no_args(config, args, resolved) ==
    IF ~IsOk(resolved)
    THEN Outcome(resolved, << >>, config)
    ELSE IF ~IsSubclass(resolved.val[1], "Configurable")
    THEN Outcome(Raise("AssertionError", "not-configurable", {resolved.val[1]}),
                 << >>, config)
    ELSE FromConfigDictCall(config, resolved, << resolved.val[2] >>)

\* from_config_dict after cls, cls_conf = cls_conf_from_config_dict(...)
FromConfigDictResolved(config, args, resolved) ==
    IF ~IsOk(resolved)
    THEN Outcome(resolved, << >>, config)
    ELSE IF ~IsSubclass(resolved.val[1], "Configurable")
    THEN Outcome(Raise("AssertionError", "not-configurable", {resolved.val[1]}),
                 << >>, config)
    ELSE FromConfigDictCall(config, resolved, << resolved.val[2] >> \o args)

\* from_config_dict(config, type_iter, *args): the result, the calls made and
\* the caller's config as it is after the call
from_config_dict(config, type_iter, args) ==
    FromConfigDictResolved(config, args, cls_conf_from_config_dict(config, type_iter))

(***************************************************************************)
(* configuration_test_helper.  While it runs the helper holds `configs`,   *)
(* the mappings inst_config, inst2_config, inst3_config and inst4_config   *)
(* as they are, `insts`, the instances it has constructed, and the calls   *)
(* it has made; ret is what it raised, or Ok(None) while it runs.          *)
(***************************************************************************)
\* json.loads(json.dumps(v)) == v, which json.dumps refuses for an instance
\* or a class
RECURSIVE JsonSerializable(_)
JsonSerializable(v) ==
    IF IsDict(v)
    THEN \A k \in DOMAIN v.v : JsonSerializable(v.v[k])
    ELSE v.t \notin {"object", "type"}

\* inspect.signature(cls.__init__): the constructor found through the MRO,
\* (self, /, *args, **kwargs) for object's
InitSignature(cls) ==
    IF InitIsFunction(cls)
    THEN ClassTable[InitClass(cls)].init
    ELSE << Self, Param("args", VAR_POSITIONAL, Empty),
            Param("kwargs", VAR_KEYWORD, Empty) >>

Helper(ret, calls, configs, insts) ==
    [ret |-> ret, calls |-> calls, configs |-> configs, insts |-> insts]

\* inst_k_config = inst_k.get_config(), exported being what it returned
HelperExport(h, made, exported) ==
    IF ~IsOk(exported)
    THEN Helper(exported, Append(h.calls, Call("get_config", made.cls, << >>, EmptyMap)),
                h.configs, h.insts)
    ELSE Helper(h.ret, Append(h.calls, Call("get_config", made.cls, << >>, EmptyMap)),
                Append(h.configs, exported.val), Append(h.insts, made))

\* the helper once inst_T.from_config(configs[src], *from_config_args) has
\* ended as made: the mapping passed is left as the from_config leaves it
HelperMade(h, cls, from_config_args, src, made) ==
    IF ~IsOk(made.ret)
    THEN Helper(made.ret,
                h.calls \o << Call("from_config", cls,
                                   << h.configs[src] >> \o from_config_args, EmptyMap) >>
                        \o made.calls,
                [h.configs EXCEPT ![src] = made.arg], h.insts)
    ELSE HelperExport(
            Helper(h.ret,
                   h.calls \o << Call("from_config", cls,
                                      << h.configs[src] >> \o from_config_args, EmptyMap) >>
                           \o made.calls,
                   [h.configs EXCEPT ![src] = made.arg], h.insts),
            made.ret.val, get_config(made.ret.val))

\* inst_k = inst_T.from_config(configs[src], *from_config_args)
\* inst_k_config = inst_k.get_config()
HelperBuild(h, cls, from_config_args, src) ==
    IF ~IsOk(h.ret) THEN h
    ELSE HelperMade(h, cls, from_config_args, src,
                    from_config(cls, << h.configs[src] >> \o from_config_args))

\* the five assertions on the exported configurations, then
\* return inst2, inst3, inst4
HelperAsserts(h) ==
    IF ~IsOk(h.ret) THEN h
    ELSE IF /\ PyEq(h.configs[1], h.configs[2])
            /\ PyEq(h.configs[1], h.configs[3])
            /\ PyEq(h.configs[2], h.configs[3])
            /\ PyEq(h.configs[1], h.configs[4])
            /\ PyEq(h.configs[3], h.configs[4])
    THEN Helper(Ok(h.insts), h.calls, h.configs, h.insts)
    ELSE Helper(Raise("AssertionError", "configs-differ", {}), h.calls, h.configs, h.insts)

\* the helper from inst_config = inst.get_config() on: inst2 and inst3 are
\* constructed from inst_config, inst4 from inst2_config
HelperExported(inst, from_config_args, dflt_cfg, inst_config) ==
    IF ~IsOk(inst_config)
    THEN Helper(inst_config, << Call("get_config", inst.cls, << >>, EmptyMap) >>,
                << >>, << >>)
    ELSE IF ~IsDict(inst_config.val)
    THEN Helper(Raise("TypeError", "not-iterable", {}),
                << Call("get_config", inst.cls, << >>, EmptyMap) >>, << >>, << >>)
    ELSE IF DOMAIN dflt_cfg.v # DOMAIN inst_config.val.v
    THEN Helper(Raise("AssertionError", "config-keys", {}),
                << Call("get_config", inst.cls, << >>, EmptyMap) >>, << >>, << >>)
    ELSE HelperAsserts(
            HelperBuild(
                HelperBuild(
                    HelperBuild(
                        Helper(Ok(None),
                               << Call("get_config", inst.cls, << >>, EmptyMap) >>,
                               << inst_config.val >>, << >>),
                        inst.cls, from_config_args, 1),
                    inst.cls, from_config_args, 1),
                inst.cls, from_config_args, 2))

\* the helper once dflt_cfg and init_param_map are computed: the keys of the
\* default configuration are the constructor's parameters but the ignored
\* ones, and the default configuration is JSON serializable
HelperDefaults(inst, config_ignored_params, from_config_args, dflt_cfg, init_param_map) ==
    IF DOMAIN dflt_cfg.v # DOMAIN init_param_map.v \ config_ignored_params
    THEN Helper(Raise("AssertionError", "default-keys", {}), << >>, << >>, << >>)
    ELSE IF ~JsonSerializable(dflt_cfg)
    THEN Helper(Raise("AssertionError", "default-not-serializable", {}), << >>, << >>, << >>)
    ELSE HelperExported(inst, from_config_args, dflt_cfg, get_config(inst))

\* configuration_test_helper(inst, config_ignored_params, from_config_args)
configuration_test_helper(inst, config_ignored_params, from_config_args) ==
    IF inst.t = "type"
    THEN Helper(Raise("AssertionError", "passed-a-type", {}), << >>, << >>, << >>)
    ELSE IF inst.t # "object" \/ Lookup(inst.cls, "get_default_config") = ""
    THEN Helper(Raise("AttributeError", "get_default_config", {}), << >>, << >>, << >>)
    ELSE HelperDefaults(inst, config_ignored_params, from_config_args,
                        get_default_config(inst.cls),
                        _param_map_func(InitSignature(inst.cls)))

(***************************************************************************)
(* The inputs the helpers are run on.                                      *)
(***************************************************************************)
\* the sequences over S of length at most n
SeqsUpTo(S, n) == UNION {[1..m -> S] : m \in 0..n}

\* the classes candidate iterables are drawn from
CandPool == {"T1", "T2", "NotConfigurable", "T_abc", "T_kwonly", "WithRuntimeArg"}
\* those of them instances are constructed from
ConstructPool == {"T1", "T2", "NotConfigurable", "WithRuntimeArg"}
\* the classes make_default_config is run on
DefaultPool == CandPool \cup {"NoInitExample", "SomeConfigurableType", "T1Child"}

\* a key of the tests' configurations that names no class
NotAnImpl == "NotAnImpl"

\* the sub-configuration blocks a standard configuration may hold under key k
BlockOptions(k) ==
    CASE k = _type_to_key("T1") ->
            {Dict([foo |-> IntV(256), bar |-> StrV("Some string value")]),
             Dict([foo |-> IntV(8)])}
      [] k = _type_to_key("T2") ->
            {Dict([child |-> Dict([foo |-> IntV(-1), bar |-> StrV("some other value")]),
                   alpha |-> FltV("1.0"), beta |-> StrV("euclidean")]),
             Dict([child |-> Dict([foo |-> IntV(12)])])}
      [] k = _type_to_key("T_abc") ->
            {Dict([a |-> IntV(1), b |-> IntV(2), cat |-> IntV(3)])}
      [] k = _type_to_key("WithRuntimeArg") -> {Dict([gain |-> IntV(5)])}
      [] OTHER -> {Dict(EmptyMap)}

\* the values of the "type" key
TypeValues(keys) == {None, StrV("not-present-label")} \cup {StrV(k) : k \in keys}

\* the standard configurations over the block keys `keys`, with and without
\* a "type" key
StdConfigs(keys) ==
    LET blocks == UNION {[K -> UNION {BlockOptions(k) : k \in keys}] :
                            K \in {K \in SUBSET keys : Cardinality(K) <= MaxBlocks}}
        fits == {b \in blocks : \A k \in DOMAIN b : b[k] \in BlockOptions(k)}
    IN {Dict(b) : b \in fits}
        \cup {Dict(("type" :> tv) @@ b) : tv \in TypeValues(keys), b \in fits}

KeysOf(pool) == {_type_to_key(c) : c \in pool} \cup {NotAnImpl}

\* the names of the parameters of a generated signature, by position
ParamNames == << "a", "b", "c", "d", "e" >>

\* the place of a kind in a signature: positional-only parameters first, then
\* positional-or-keyword, *args, keyword-only, **kwargs
KindRank(kind) ==
    CASE kind = POSITIONAL_ONLY -> 1
      [] kind = POSITIONAL_OR_KEYWORD -> 2
      [] kind = VAR_POSITIONAL -> 3
      [] kind = KEYWORD_ONLY -> 4
      [] OTHER -> 5

\* the parameters a signature may hold at place i
ParamsAt(i) ==
    {Param(ParamNames[i], kind, default) :
        kind \in keep_kinds, default \in {Empty, None, IntV(0)}}
      \cup {Param(ParamNames[i], kind, Empty) : kind \in {VAR_POSITIONAL, VAR_KEYWORD}}

\* ps is the parameter list, after self, of a signature Python accepts: the
\* kinds in order, one *args and one **kwargs at most, and no positional
\* parameter without default after one with a default
WellFormed(ps) ==
    /\ \A i \in DOMAIN ps : ps[i] \in ParamsAt(i)
    /\ \A i, j \in DOMAIN ps :
          i < j =>
            /\ KindRank(ps[i].kind) <= KindRank(ps[j].kind)
            /\ ps[i].kind = ps[j].kind => ps[i].kind \in keep_kinds
            /\ (KindRank(ps[j].kind) <= 2 /\ ps[i].default # Empty) =>
                  ps[j].default # Empty

\* the well-formed parameter lists of n parameters, each an extension of a
\* well-formed list of n - 1
RECURSIVE ParamLists(_)
ParamLists(n) ==
    IF n = 0 THEN {<< >>}
    ELSE {q \in {Append(ps, p) : ps \in ParamLists(n - 1), p \in ParamsAt(n)} :
            WellFormed(q)}

\* the signatures of the constructors _param_map_func is run on
Signatures ==
    {<< Self >> \o ps : ps \in UNION {ParamLists(n) : n \in 0..MaxParams}}

\* the classes get_default_config is called on
SignaturePool ==
    {"T1", "T2", "T_abc", "T_kwonly", "T_star", "T_defaults", "T_defaults_star",
     "NoInitExample", "SomeConfigurableType", "T1Child", "WithRuntimeArg",
     "Configurable"}

\* the classes from_config is called on
FromConfigPool ==
    {"T1", "T2", "T1Child", "WithRuntimeArg", "SomeConfigurableType", "T_abc",
     "T_concrete", "T_positional_only"}

\* the bare configurations from_config is called with: the blocks of the
\* tests, whole and partial, and ones with a key no constructor takes
BareInputs ==
    UNION {BlockOptions(k) : k \in KeysOf(FromConfigPool)}
        \cup {Dict([foo |-> IntV(8), baz |-> IntV(1)]),
              Dict([child |-> Dict([foo |-> IntV(12)]), gamma |-> IntV(1)]),
              Dict([child |-> Dict([baz |-> IntV(1)])]),
              Dict([alpha |-> FltV("1.0")])}

\* the extra positional arguments handed to from_config_dict
ArgPool == {BoolV(FALSE), StrV("dep")}

\* the bare configurations handed to cls_conf_to_config_dict
BareConfigs ==
    UNION {BlockOptions(k) : k \in KeysOf(CandPool)}
        \cup {Dict([foo |-> IntV(1), bar |-> StrV("baz")]),
              Dict([foo |-> IntV(8), bar |-> StrV("baz")])}

\* the instances and other values handed to to_config_dict
InstPool ==
    LET t1s == {Construct(c, kw).val :
                    c \in {"T1", "T1Child"},
                    kw \in {EmptyMap, [foo |-> IntV(8)],
                            [foo |-> IntV(12), bar |-> StrV("OK")]}}
        t2s == {Construct("T2", kw).val :
                    kw \in {EmptyMap} \cup
                          {[child |-> c, alpha |-> FltV("0.3"), beta |-> StrV("not default")] :
                              c \in t1s}}
    IN  t1s \cup t2s
        \cup {Construct(c, EmptyMap).val :
                c \in {"SomeConfigurableType", "SomeOtherClassType", "NotConfigurable"}}
        \cup {Construct("WithRuntimeArg", [dep |-> StrV("dep"), gain |-> g]).val :
                g \in {IntV(1), IntV(5)}}
        \cup {TypeVal(c) : c \in Classes}
        \cup {None, IntV(5), Dict(EmptyMap)}

\* the instances a round trip starts from: instances of the conforming test
\* classes, T2 holding a T1
RoundTripPool ==
    {x \in InstPool : x.t = "object" /\ x.cls \in {"T1", "T1Child", "T2", "WithRuntimeArg"}}

\* candidates of which two, both named T in the tests, share a type identifier
CollidePool == {"T1", "T_abc", "T_kwonly"}

\* the classes wrapped and resolved: conforming classes, two of them sharing
\* an identifier
WrapPool == {"T1", "T2", "T1Child", "T_abc", "T_kwonly", "SomeConfigurableType"}

\* the values of the config_ignored_params argument
IgnoredPool == {{}, {"dep"}}

(***************************************************************************)
(* State: the caller's standard configuration and candidate iterable, the  *)
(* last helper called with its arguments, what it returned or raised and   *)
(* the calls it made.                                                      *)
(***************************************************************************)
VARIABLES config, type_iter, last, ret, calls

vars == << config, type_iter, last, ret, calls >>

NoCall == [op |-> "none", args |-> << >>]
NoResult == [kind |-> "none"]

Idle == last = NoCall /\ ret = NoResult /\ calls = << >>

\* the classes of ConstructPool in the order a candidate collection lists them
ConstructOrder == << "T1", "T2", "NotConfigurable", "WithRuntimeArg" >>

\* the place of class c in the sequence order
IndexIn(order, c) == CHOOSE n \in DOMAIN order : order[n] = c

\* the candidate collections over ConstructPool: at most MaxCands of its
\* classes, each once
CandSets ==
    {s \in SeqsUpTo(ConstructPool, MaxCands) :
        \A i, j \in DOMAIN s :
            i < j => IndexIn(ConstructOrder, s[i]) < IndexIn(ConstructOrder, s[j])}

\* a configuration and a candidate collection of the classes that can be
\* constructed
Init ==
    /\ config \in StdConfigs(KeysOf(ConstructPool))
    /\ type_iter \in CandSets
    /\ Idle

\* any configuration and any candidate iterable over the candidate pool
InitResolve ==
    /\ config \in StdConfigs(KeysOf(CandPool))
    /\ type_iter \in SeqsUpTo(CandPool, MaxCands)
    /\ Idle

\* the candidate iterables make_default_config is run on
InitDefault ==
    /\ config = Dict(EmptyMap)
    /\ type_iter \in SeqsUpTo(DefaultPool, MaxCands)
    /\ Idle

\* configurations and candidate iterables in which type identifiers repeat,
\* with room for a candidate of another identifier beside two that collide
InitCollide ==
    /\ config \in StdConfigs(KeysOf(CollidePool))
    /\ type_iter \in SeqsUpTo(CollidePool, MaxCands + 1)
    /\ Idle

\* the configuration of test_from_config_dict with each value of "type", and
\* T1 and T2 as candidates
InitSequence ==
    /\ config \in {Dict(("type" :> tv)
                        @@ (_type_to_key("T1") :>
                                Dict([foo |-> IntV(256), bar |-> StrV("Some string value")]))
                        @@ (_type_to_key("T2") :>
                                Dict([child |-> Dict([foo |-> IntV(-1),
                                                      bar |-> StrV("some other value")]),
                                      alpha |-> FltV("1.0"), beta |-> StrV("euclidean")]))) :
                    tv \in TypeValues({_type_to_key("T1"), _type_to_key("T2")})}
    /\ type_iter \in {<< "T1", "T2" >>, << "T2" >>}
    /\ Idle

\* the caller holds a dictionary cls_conf_to_config_dict or to_config_dict
\* returned, and candidates to resolve it with
InitWrap ==
    /\ config \in {cls_conf_to_config_dict(cls, conf) : cls \in WrapPool, conf \in BareConfigs}
                    \cup {to_config_dict(c_inst).ret.val :
                            c_inst \in {x \in InstPool : IsOk(to_config_dict(x).ret)}}
    /\ type_iter \in SeqsUpTo(WrapPool, MaxCands)
    /\ Idle

\* a bare configuration that leaves out some of the parameters a, b and cat
InitRequired ==
    /\ config \in {Dict([k \in K |-> [a |-> IntV(1), b |-> IntV(2), cat |-> IntV(3)][k]]) :
                        K \in SUBSET {"a", "b", "cat"}}
    /\ type_iter = << >>
    /\ Idle

\* a bare configuration the caller holds
InitFromConfig ==
    /\ config \in BareInputs
    /\ type_iter = << >>
    /\ Idle

\* the caller holds the configuration an instance exported
InitRoundTrip ==
    \E x \in RoundTripPool :
        /\ config = get_config(x).val
        /\ type_iter = << >>
        /\ last = [op |-> "get_config", args |-> << x >>]
        /\ ret = get_config(x)
        /\ calls = << >>

\* no configuration at hand: the export helpers take their own arguments
InitExport ==
    /\ config = Dict(EmptyMap)
    /\ type_iter = << >>
    /\ Idle

\* _param_map_func(func) on the signature of a constructor
ParamMapFunc ==
    \E func \in Signatures :
        /\ last' = [op |-> "_param_map_func", args |-> << func >>]
        /\ ret' = Ok(_param_map_func(func))
        /\ calls' = << >>
        /\ UNCHANGED << config, type_iter >>

\* cls.get_default_config()
GetDefaultConfig ==
    \E cls \in SignaturePool :
        /\ last' = [op |-> "get_default_config", args |-> << cls >>]
        /\ ret' = Ok(get_default_config(cls))
        /\ calls' = << >>
        /\ UNCHANGED << config, type_iter >>

MakeDefaultConfig ==
    /\ last' = [op |-> "make_default_config", args |-> << type_iter >>]
    /\ ret' = make_default_config(type_iter)
    /\ calls' = << >>
    /\ UNCHANGED << config, type_iter >>

ClsConfToConfigDict ==
    \E cls \in Classes, conf \in BareConfigs :
        /\ last' = [op |-> "cls_conf_to_config_dict", args |-> << cls, conf >>]
        /\ ret' = Ok(cls_conf_to_config_dict(cls, conf))
        /\ calls' = << >>
        /\ UNCHANGED << config, type_iter >>

ToConfigDict ==
    \E c_inst \in InstPool :
        /\ last' = [op |-> "to_config_dict", args |-> << c_inst >>]
        /\ ret' = to_config_dict(c_inst).ret
        /\ calls' = to_config_dict(c_inst).calls
        /\ UNCHANGED << config, type_iter >>

\* cls_conf_from_config_dict taking the "type" entry out of the caller's mapping
ClsConfFromConfigDict_consuming ==
    /\ last' = [op |-> "cls_conf_from_config_dict", args |-> << config, type_iter >>]
    /\ ret' = cls_conf_from_config_dict(config, type_iter)
    /\ calls' = << >>
    /\ config' = Dict([k \in DOMAIN config.v \ {"type"} |-> config.v[k]])
    /\ UNCHANGED type_iter

ClsConfFromConfigDict ==
    /\ last' = [op |-> "cls_conf_from_config_dict", args |-> << config, type_iter >>]
    /\ ret' = cls_conf_from_config_dict(config, type_iter)
    /\ calls' = << >>
    /\ UNCHANGED << config, type_iter >>

FromConfigDict ==
    \E args \in SeqsUpTo(ArgPool, MaxArgs) :
      \E out \in {from_config_dict(config, type_iter, args)} :
        /\ last' = [op |-> "from_config_dict", args |-> << config, type_iter, args >>]
        /\ ret' = out.ret
        /\ calls' = out.calls
        /\ config' = out.arg
        /\ UNCHANGED type_iter

\* cls.from_config(config, *args) on the caller's mapping, which is left as
\* the from_config leaves it
FromConfig ==
    \E cls \in FromConfigPool, args \in SeqsUpTo(ArgPool, MaxArgs) :
      \E out \in {from_config(cls, << config >> \o args)} :
        /\ last' = [op |-> "from_config", args |-> << cls, config, args >>]
        /\ ret' = out.ret
        /\ calls' = out.calls
        /\ config' = out.arg
        /\ UNCHANGED type_iter

\* super(cls, cls).from_config(config, *args): the implementation of
\* Configurable, whatever cls overrides
SuperFromConfig ==
    \E cls \in FromConfigPool, args \in SeqsUpTo(ArgPool, MaxArgs) :
      \E out \in {BaseFromConfig(cls, << config >> \o args)} :
        /\ last' = [op |-> "super_from_config", args |-> << cls, config, args >>]
        /\ ret' = out.ret
        /\ calls' = out.calls
        /\ config' = out.arg
        /\ UNCHANGED type_iter

\* config = inst.get_config() on the instance the last construction returned:
\* the caller holds the exported mapping from now on
GetConfig ==
    /\ last.op \in {"from_config", "super_from_config", "from_config_dict"}
    /\ IsOk(ret)
    /\ \E out \in {get_config(ret.val)} :
        /\ last' = [op |-> "get_config", args |-> << ret.val >>]
        /\ ret' = out
        /\ config' = IF IsOk(out) THEN out.val ELSE config
        /\ calls' = << >>
        /\ UNCHANGED type_iter

\* configuration_test_helper(inst, config_ignored_params, from_config_args)
ConfigurationTestHelper ==
    \E inst \in InstPool, config_ignored_params \in IgnoredPool,
       from_config_args \in SeqsUpTo(ArgPool, MaxArgs) :
        /\ last' = [op |-> "configuration_test_helper",
                    args |-> << inst, config_ignored_params, from_config_args >>]
        /\ ret' = configuration_test_helper(inst, config_ignored_params,
                                            from_config_args).ret
        /\ calls' = configuration_test_helper(inst, config_ignored_params,
                                              from_config_args).calls
        /\ UNCHANGED << config, type_iter >>

\* test_config['type'] = ...: the caller selects another type; the results
\* of the call before are dropped
SetType ==
    \E k \in DOMAIN config.v \ {"type"} :
        /\ config' = Dict([x \in DOMAIN config.v \cup {"type"} |->
                            IF x = "type" THEN StrV(k) ELSE config.v[x]])
        /\ config' # config
        /\ last' = NoCall
        /\ ret' = NoResult
        /\ calls' = << >>
        /\ UNCHANGED type_iter

NextResolve == ClsConfFromConfigDict \/ SetType
NextExport == ClsConfToConfigDict \/ ToConfigDict
NextConstruct == FromConfigDict \/ SetType
NextSignature == ParamMapFunc \/ GetDefaultConfig
NextFromConfig == FromConfig \/ SuperFromConfig
NextRoundTrip == FromConfig \/ GetConfig
NextCollide == ClsConfFromConfigDict \/ MakeDefaultConfig
NextSequence ==
    \/ MakeDefaultConfig
    \/ ClsConfToConfigDict
    \/ ToConfigDict
    \/ ClsConfFromConfigDict
    \/ FromConfigDict

Next ==
    \/ MakeDefaultConfig
    \/ ClsConfToConfigDict
    \/ ToConfigDict
    \/ ClsConfFromConfigDict
    \/ FromConfigDict
    \/ SetType
    \/ ParamMapFunc
    \/ GetDefaultConfig
    \/ FromConfig
    \/ SuperFromConfig
    \/ GetConfig
    \/ ConfigurationTestHelper

Spec == Init /\ [][Next]_vars
\* cls_conf_from_config_dict on every configuration and candidate iterable
SpecResolve == InitResolve /\ [][NextResolve]_vars
\* make_default_config on every candidate iterable
SpecDefault == InitDefault /\ [][MakeDefaultConfig]_vars
\* cls_conf_to_config_dict and to_config_dict on their own arguments
SpecExport == InitExport /\ [][NextExport]_vars
\* from_config_dict on the classes that can be constructed
SpecConstruct == Init /\ [][NextConstruct]_vars
\* construction from bare configurations
SpecFromConfig == InitFromConfig /\ [][NextFromConfig]_vars
\* construction from configurations that leave out constructor parameters
SpecRequired == InitRequired /\ [][NextFromConfig]_vars
\* default configurations derived from constructor signatures
SpecSignature == InitExport /\ [][NextSignature]_vars
\* resolution and default configuration over colliding candidates
SpecCollide == InitCollide /\ [][NextCollide]_vars
\* the five helpers called one after the other, in any order
SpecSequence == InitSequence /\ [][NextSequence]_vars
\* cls_conf_from_config_dict on what the export helpers return
SpecWrap == InitWrap /\ [][ClsConfFromConfigDict]_vars
\* configuration_test_helper on instances and other values
SpecHelper == InitExport /\ [][ConfigurationTestHelper]_vars
\* export, construction from the export, export again
SpecRoundTrip == InitRoundTrip /\ [][NextRoundTrip]_vars

(***************************************************************************)
(* Properties of cls_conf_from_config_dict.                                *)
(***************************************************************************)
\* the last call was cls_conf_from_config_dict
Resolved == last.op = "cls_conf_from_config_dict"
\* the configuration and the candidates of the last call, as passed
ArgConfig == last.args[1].v
ArgTypes == last.args[2]
\* the type identifiers of the candidates, from their module and name
ArgIds ==
    {ClassTable[ArgTypes[i]].module \o "." \o ClassTable[ArgTypes[i]].name :
        i \in DOMAIN ArgTypes}
\* the keys of the configuration other than "type"
ArgBlocks == DOMAIN ArgConfig \ {"type"}
\* the configuration names a type, a string
TypeNamed == "type" \in DOMAIN ArgConfig /\ ArgConfig["type"].t = "str"

Failed(why) == ret.kind = "ValueError" /\ ret.why = why

\* C1: cls_conf_from_config_dict validates in a fixed order and the first
\* failure wins: missing-type when "type" is absent; else unset-type when it
\* is None; else no-config-block when the type string is no other key of the
\* configuration; else unknown-implementation when it is no candidate's
\* identifier; a type with neither block nor candidate fails as
\* no-config-block, a None type as unset-type even with no candidates.
C1_ValidationOrder ==
    Resolved =>
        /\ "type" \notin DOMAIN ArgConfig => Failed("missing-type")
        /\ ("type" \in DOMAIN ArgConfig /\ ArgConfig["type"] = None)
                => Failed("unset-type")
        /\ (TypeNamed /\ ArgConfig["type"].v \notin ArgBlocks)
                => Failed("no-config-block")
        /\ (TypeNamed /\ ArgConfig["type"].v \in ArgBlocks
                /\ ArgConfig["type"].v \notin ArgIds)
                => Failed("unknown-implementation")
        /\ (TypeNamed /\ ArgConfig["type"].v \in ArgBlocks
                /\ ArgConfig["type"].v \in ArgIds)
                => IsOk(ret)

\* a type string with neither a block nor a candidate, among other blocks
\* and candidates, was refused for its missing block
C1_Witness ==
    /\ Resolved /\ TypeNamed
    /\ ArgConfig["type"].v \notin ArgBlocks \cup ArgIds
    /\ ArgBlocks # {} /\ ArgIds # {}
    /\ Failed("no-config-block")

\* the candidates of the last call whose identifier is k
Named(k) ==
    {ArgTypes[i] : i \in {j \in DOMAIN ArgTypes :
        ClassTable[ArgTypes[j]].module \o "." \o ClassTable[ArgTypes[j]].name = k}}

\* the configuration with only the blocks keep left beside "type"
Restricted(cfg, keep) == Dict([k \in DOMAIN cfg \cap ({"type"} \cup keep) |-> cfg[k]])
\* the configuration with its type set to k
Retyped(cfg, k) == Dict([cfg EXCEPT !["type"] = StrV(k)])

\* C2: a type string that is a sibling key and a candidate's identifier
\* yields that candidate and the block under the key; the other blocks do
\* not matter, and setting "type" to another candidate's identifier yields
\* that candidate and its block.
C2_SelectsTypeAndBlock ==
    (Resolved /\ TypeNamed /\ ArgConfig["type"].v \in ArgBlocks \cap ArgIds) =>
        /\ IsOk(ret)
        /\ ret.val[1] \in Named(ArgConfig["type"].v)
        /\ ret.val[2] = ArgConfig[ArgConfig["type"].v]
        /\ \A others \in SUBSET (ArgBlocks \ {ArgConfig["type"].v}) :
              cls_conf_from_config_dict(
                  Restricted(ArgConfig, others \cup {ArgConfig["type"].v}), ArgTypes) = ret
        /\ \A k \in ArgBlocks \cap ArgIds :
              LET switched == cls_conf_from_config_dict(Retyped(ArgConfig, k), ArgTypes)
              IN /\ IsOk(switched)
                 /\ switched.val[1] \in Named(k)
                 /\ switched.val[2] = ArgConfig[k]

\* T2 was selected from a configuration that also holds T1's block, both
\* being candidates
C2_Witness ==
    /\ Resolved /\ IsOk(ret)
    /\ ret.val[1] = "T2"
    /\ ret.val[2] = ArgConfig["tests.test_configuration.T2"]
    /\ "tests.test_configuration.T1" \in ArgBlocks \cap ArgIds

\* C3: the unset-type and the no-config-block error report exactly the keys
\* of the configuration other than "type", the unknown-implementation error
\* exactly the candidates' type identifiers.
C3_ErrorOptions ==
    Resolved =>
        /\ (Failed("unset-type") \/ Failed("no-config-block")) => ret.options = ArgBlocks
        /\ Failed("unknown-implementation") => ret.options = ArgIds

\* a type with a block but no candidate was refused, with candidates to
\* report that are not the block keys
C3_Witness ==
    /\ Resolved /\ Failed("unknown-implementation")
    /\ ret.options # {} /\ ret.options # ArgBlocks
    /\ ret.options = ArgIds

(***************************************************************************)
(* Properties of make_default_config.                                      *)
(***************************************************************************)
\* the last call was make_default_config
MadeDefault == last.op = "make_default_config"
\* the candidates of the last call
DefaultTypes == last.args[1]
\* the identifier of a class, from its module and name
IdOf(c) == ClassTable[c].module \o "." \o ClassTable[c].name
\* the classes that derive from Configurable
Conforming ==
    {"Configurable", "T1", "T2", "T_abc", "T_kwonly", "NoInitExample",
     "SomeConfigurableType", "WithRuntimeArg", "T1Child"}
\* the identifier of the i-th candidate names that class only
NamesOneClass(types, i) ==
    \A j \in DOMAIN types : IdOf(types[j]) = IdOf(types[i]) => types[j] = types[i]

\* the default configurations of T1 and of T2, as the tests give them
T1DefaultConfig == Dict([foo |-> IntV(1), bar |-> StrV("baz")])
T2DefaultConfig ==
    Dict([child |-> T1DefaultConfig, alpha |-> FltV("0.0001"), beta |-> StrV("default")])

\* C4: for every iterable of Configurable classes, empty, one or many,
\* make_default_config returns a mapping whose "type" is None and whose
\* other keys are exactly the candidates' identifiers, each mapped to the
\* get_default_config() of the candidate it names (T2's nested one
\* included); it never selects a type, even for a single candidate.
C4_DefaultConfigUnselected ==
    (MadeDefault /\ \A i \in DOMAIN DefaultTypes : DefaultTypes[i] \in Conforming) =>
        /\ IsOk(ret)
        /\ IsDict(ret.val)
        /\ ret.val.v["type"] = None
        /\ DOMAIN ret.val.v \ {"type"} = {IdOf(DefaultTypes[i]) : i \in DOMAIN DefaultTypes}
        /\ \A i \in DOMAIN DefaultTypes :
              NamesOneClass(DefaultTypes, i) =>
                /\ ret.val.v[IdOf(DefaultTypes[i])] = get_default_config(DefaultTypes[i])
                /\ DefaultTypes[i] = "T1" => ret.val.v[IdOf("T1")] = T1DefaultConfig
                /\ DefaultTypes[i] = "T2" => ret.val.v[IdOf("T2")] = T2DefaultConfig

\* T2 alone was given: its nested default configuration is there and no
\* type is selected
C4_Witness ==
    /\ MadeDefault /\ DefaultTypes = << "T2" >>
    /\ IsOk(ret)
    /\ ret.val.v["type"] = None
    /\ ret.val.v["tests.test_configuration.T2"] = T2DefaultConfig

(***************************************************************************)
(* Properties of cls_conf_to_config_dict and to_config_dict.               *)
(***************************************************************************)
\* C5: cls_conf_to_config_dict(t, c) is the mapping of exactly the two
\* entries "type" -> identifier(t) and identifier(t) -> c, the identifier
\* being "<defining module>.<class name>" and c carried through unchanged.
C5_WrapsTypeAndConf ==
    last.op = "cls_conf_to_config_dict" =>
        /\ IsOk(ret)
        /\ IsDict(ret.val)
        /\ DOMAIN ret.val.v = {"type", IdOf(last.args[1])}
        /\ ret.val.v["type"] = StrV(IdOf(last.args[1]))
        /\ ret.val.v[IdOf(last.args[1])] = last.args[2]

\* T1 was wrapped with a configuration of two values
C5_Witness ==
    /\ last.op = "cls_conf_to_config_dict"
    /\ last.args = << "T1", Dict([foo |-> IntV(8), bar |-> StrV("baz")]) >>
    /\ ret.val.v["type"] = StrV("tests.test_configuration.T1")
    /\ ret.val.v["tests.test_configuration.T1"] = Dict([foo |-> IntV(8), bar |-> StrV("baz")])

\* the last call was to_config_dict
Exported == last.op = "to_config_dict"
\* its argument is a class
GivenType == last.args[1].t = "type"
\* its argument is an instance of a class that derives from Configurable
GivenConforming == last.args[1].t = "object" /\ last.args[1].cls \in Conforming

\* C6: to_config_dict raises ValueError whenever its argument is a class
\* (object, Configurable or a subclass of it) or an instance of a class that
\* does not derive from Configurable; get_config is not called and nothing
\* is returned.
C6_RefusesTypesAndOthers ==
    (Exported /\ (GivenType \/ ~GivenConforming)) =>
        /\ ret.kind = "ValueError"
        /\ calls = << >>

\* a class that derives from Configurable was given in place of an instance
C6_Witness ==
    /\ Exported
    /\ last.args[1] = TypeVal("SomeConfigurableType")
    /\ ret.kind = "ValueError"

\* the configuration a T1 instance exports
T1Config(x) == Dict([foo |-> x.attrs["foo"], bar |-> x.attrs["bar"]])

\* C7: for an instance x of a Configurable class, to_config_dict(x) is
\* cls_conf_to_config_dict(class of x, x.get_config()): "type" is the
\* identifier of x's own class and the block under it is x's exported
\* configuration, nested sub-configurations included.
C7_ExportsOwnClass ==
    (Exported /\ GivenConforming) =>
        /\ calls = << Call("get_config", last.args[1].cls, << >>, EmptyMap) >>
        /\ IsOk(get_config(last.args[1])) =>
            /\ ret = Ok(cls_conf_to_config_dict(last.args[1].cls,
                                                get_config(last.args[1]).val))
            /\ DOMAIN ret.val.v = {"type", IdOf(last.args[1].cls)}
            /\ ret.val.v["type"] = StrV(IdOf(last.args[1].cls))
        /\ last.args[1].cls \in {"T1", "T1Child"} =>
            /\ IsOk(ret)
            /\ ret.val.v[IdOf(last.args[1].cls)] = T1Config(last.args[1])
        /\ last.args[1].cls = "T2" =>
            /\ IsOk(ret)
            /\ ret.val.v[IdOf("T2")] =
                  Dict([child |-> T1Config(last.args[1].attrs["child"]),
                        alpha |-> last.args[1].attrs["alpha"],
                        beta |-> last.args[1].attrs["beta"]])

\* a T2 holding a T1 that is not the default one was exported, its child's
\* configuration nested in the block
C7_Witness ==
    /\ Exported /\ GivenConforming /\ IsOk(ret)
    /\ last.args[1].cls = "T2"
    /\ ret.val.v["type"] = StrV("tests.test_configuration.T2")
    /\ ret.val.v["tests.test_configuration.T2"].v["child"] =
          Dict([foo |-> IntV(12), bar |-> StrV("OK")])
    /\ ret.val.v["tests.test_configuration.T2"].v["beta"] = StrV("not default")

(***************************************************************************)
(* Properties of from_config_dict.                                         *)
(***************************************************************************)
\* the last call was from_config_dict
Constructed == last.op = "from_config_dict"
\* the extra positional arguments of the last call
ArgExtra == last.args[3]
\* the resolution of the last call's configuration fails
ResolutionFails ==
    \/ "type" \notin DOMAIN ArgConfig
    \/ ArgConfig["type"] = None
    \/ ArgConfig["type"].v \notin ArgBlocks
    \/ ArgConfig["type"].v \notin ArgIds
\* the candidate the configuration selects and its block, as passed
SelectedClass == CHOOSE c \in Named(ArgConfig["type"].v) : TRUE
SelectedBlock == ArgConfig[ArgConfig["type"].v]
\* the configuration selects a candidate that derives from Configurable
SelectsConforming == ~ResolutionFails /\ SelectedClass \in Conforming
\* the four failures of the resolution
ResolutionErrors ==
    {"missing-type", "unset-type", "no-config-block", "unknown-implementation"}
\* the constructor calls made
InitCalls == {i \in DOMAIN calls : calls[i].fn = "__init__"}

\* C8: from_config_dict resolves, then asserts that the resolved type
\* derives from Configurable, then constructs: a candidate that is selected
\* but does not derive from Configurable ends in an AssertionError, none of
\* the four resolution errors, with no from_config and no constructor call;
\* a resolution error comes before the assertion.
C8_AssertsConformance ==
    Constructed =>
        /\ ResolutionFails =>
            /\ ret.kind = "ValueError" /\ ret.why \in ResolutionErrors
            /\ calls = << >>
        /\ (~ResolutionFails /\ SelectedClass \notin Conforming) =>
            /\ ret.kind = "AssertionError"
            /\ calls = << >>
        /\ SelectsConforming =>
            /\ ret.kind # "AssertionError"
            /\ calls # << >>
            /\ calls[1].fn = "from_config" /\ calls[1].cls = SelectedClass

\* NotConfigurable, a candidate beside T1, was selected and refused
C8_Witness ==
    /\ Constructed /\ ~ResolutionFails
    /\ SelectedClass = "NotConfigurable"
    /\ ArgTypes = << "T1", "NotConfigurable" >>
    /\ ret.kind = "AssertionError"
    /\ calls = << >>

\* b is a configuration of T1: a mapping of constructor parameters of T1
ValidT1Block(b) == IsDict(b) /\ DOMAIN b.v \subseteq {"foo", "bar"}
\* b is a configuration of T2, with the child's configuration nested
ValidT2Block(b) ==
    /\ IsDict(b) /\ DOMAIN b.v \subseteq {"child", "alpha", "beta"}
    /\ "child" \in DOMAIN b.v /\ ValidT1Block(b.v["child"])
\* the configuration is valid for the candidate it selects, T1 or T2
SelectsValid ==
    /\ SelectsConforming
    /\ \/ SelectedClass = "T1" /\ ValidT1Block(SelectedBlock)
       \/ SelectedClass = "T2" /\ ValidT2Block(SelectedBlock)
\* the defaults the constructors of T1 and T2 declare
T1InitDefaults == [foo |-> IntV(1), bar |-> StrV("baz")]
T2InitDefaults == [alpha |-> FltV("0.0001"), beta |-> StrV("default")]
\* x is a T1 with the values of the block b over the constructor's defaults
IsT1From(x, b) ==
    /\ x.t = "object" /\ x.cls = "T1"
    /\ DOMAIN x.attrs = {"foo", "bar"}
    /\ \A k \in {"foo", "bar"} :
          x.attrs[k] = IF k \in DOMAIN b.v THEN b.v[k] ELSE T1InitDefaults[k]

\* C9: for a valid configuration selecting T, from_config_dict returns an
\* instance of exactly T whose constructor parameters are the values of T's
\* block, over the constructor's defaults; for T2 the child is a T1 built
\* from the nested sub-dictionary.
C9_ConstructsFromBlock ==
    (Constructed /\ ArgExtra = << >> /\ SelectsValid) =>
        /\ IsOk(ret)
        /\ ret.val.t = "object"
        /\ ret.val.cls = SelectedClass
        /\ SelectedClass = "T1" => IsT1From(ret.val, SelectedBlock)
        /\ SelectedClass = "T2" =>
            /\ DOMAIN ret.val.attrs = {"child", "alpha", "beta"}
            /\ IsT1From(ret.val.attrs["child"], SelectedBlock.v["child"])
            /\ \A k \in {"alpha", "beta"} :
                  ret.val.attrs[k] = IF k \in DOMAIN SelectedBlock.v
                                     THEN SelectedBlock.v[k]
                                     ELSE T2InitDefaults[k]

\* a T2 was constructed from the tests' block, its child from the nested one
C9_Witness ==
    /\ Constructed /\ ArgExtra = << >> /\ SelectsValid /\ IsOk(ret)
    /\ ret.val.cls = "T2"
    /\ ret.val.attrs["child"] =
          Obj("T1", [foo |-> IntV(-1), bar |-> StrV("some other value")])
    /\ ret.val.attrs["alpha"] = FltV("1.0")
    /\ ret.val.attrs["beta"] = StrV("euclidean")

\* the extra arguments are forwarded, in order, after the block
Forwarded ==
    calls[1] = Call("from_config", SelectedClass, << SelectedBlock >> \o ArgExtra, EmptyMap)
\* the constructor of the selected class received the first extra argument
\* for a parameter the block does not hold
SuppliesParameter ==
    \E i \in InitCalls :
        /\ calls[i].cls = SelectedClass
        /\ \E k \in DOMAIN calls[i].kw \ DOMAIN SelectedBlock.v :
              calls[i].kw[k] = ArgExtra[1]

\* C10 as stated: the extra arguments are forwarded, in order, after the
\* configuration to the resolved type's from_config, where they supply
\* constructor parameters left out of the configuration, with the base
\* from_config as well as with an override.
C10_ExtraArgsSupplyParameters ==
    (Constructed /\ SelectsConforming /\ ArgExtra # << >>) =>
        /\ Forwarded
        /\ SuppliesParameter

\* C10, amended: the extra arguments are forwarded, in order, after the
\* configuration to the resolved type's from_config.  They supply
\* constructor parameters only to a from_config that is overridden to take
\* them (WithRuntimeArg: the first is its dep); a from_config of the base
\* signature (config_dict, merge_default=True), as of T1 and T2, takes the
\* first as merge_default and passes none to the constructor, and fails
\* with a TypeError, no constructor called, when given more than one.
C10_ForwardsExtraArgs ==
    (Constructed /\ SelectsConforming) =>
        /\ Forwarded
        /\ (SelectedClass = "WithRuntimeArg" /\ Len(ArgExtra) \in {1, 2}
                /\ IsDict(SelectedBlock)) =>
            /\ SuppliesParameter
            /\ IsOk(ret) /\ ret.val.attrs["dep"] = ArgExtra[1]
        /\ (SelectsValid /\ Len(ArgExtra) >= 2) =>
            /\ ret.kind = "TypeError" /\ ret.why = "too-many-positional"
            /\ InitCalls = {}
        /\ (SelectsValid /\ Len(ArgExtra) = 1) =>
            /\ ~SuppliesParameter
            /\ IsOk(ret)
            /\ calls[Len(calls)].fn = "__init__" /\ calls[Len(calls)].cls = SelectedClass
            /\ DOMAIN calls[Len(calls)].kw =
                  IF Truthy(ArgExtra[1])
                  THEN DOMAIN ret.val.attrs
                  ELSE DOMAIN SelectedBlock.v

\* WithRuntimeArg was constructed with its dep given as the first of two
\* extra arguments
C10_Witness ==
    /\ Constructed /\ SelectsConforming /\ IsOk(ret)
    /\ SelectedClass = "WithRuntimeArg"
    /\ ArgExtra = << StrV("dep"), BoolV(FALSE) >>
    /\ "dep" \notin DOMAIN SelectedBlock.v
    /\ ret.val.attrs["dep"] = StrV("dep")

(***************************************************************************)
(* Properties of get_default_config.                                       *)
(***************************************************************************)
\* the last call was _param_map_func / get_default_config
Derived == last.op = "_param_map_func"
DerivedFor == last.op = "get_default_config"
\* the places of the named parameters of a signature: those after the
\* receiver that are neither *args nor **kwargs
NamedParams(func) ==
    {i \in 2..Len(func) : func[i].kind \notin {VAR_POSITIONAL, VAR_KEYWORD}}
\* the declared default of the parameter at place i, null when it has none
DefaultAt(func, i) == IF func[i].default = Empty THEN None ELSE func[i].default
\* the mapping of the named parameters of a signature to their defaults
ExpectedDefaults(func) ==
    [k \in {func[i].name : i \in NamedParams(func)} |->
        DefaultAt(func, CHOOSE i \in NamedParams(func) : func[i].name = k)]
\* the signature has a catch-all parameter
HasStars(func) ==
    \E i \in DOMAIN func : func[i].kind \in {VAR_POSITIONAL, VAR_KEYWORD}
\* the number of leading positional parameters, the receiver included
Positionals(func) ==
    Cardinality({i \in DOMAIN func :
                    func[i].kind \in {POSITIONAL_ONLY, POSITIONAL_OR_KEYWORD}})
\* a signature without catch-all parameters with *args and **kwargs added
WithStars(func) ==
    SubSeq(func, 1, Positionals(func))
        \o << Param("args", VAR_POSITIONAL, Empty) >>
        \o SubSeq(func, Positionals(func) + 1, Len(func))
        \o << Param("kwargs", VAR_KEYWORD, Empty) >>
\* the class get_default_config was called on uses the base implementation
Unoverridden == DeclaredIn(last.args[1], "get_default_config") = "Configurable"

\* C11: the un-overridden get_default_config maps exactly the named
\* non-variadic parameters of the constructor, self excluded, each to its
\* declared default or to null when it has none; *args and **kwargs never
\* appear, and adding them to a signature leaves the result the same.
C11_DefaultsFromSignature ==
    /\ Derived =>
        /\ ret = Ok(Dict(ExpectedDefaults(last.args[1])))
        /\ ~HasStars(last.args[1]) =>
              _param_map_func(WithStars(last.args[1])) = ret.val
    /\ (DerivedFor /\ Unoverridden /\ ClassTable[last.args[1]].init # NoInit) =>
          ret = Ok(Dict(ExpectedDefaults(ClassTable[last.args[1]].init)))

\* the defaults of (self, a, /, *, b=0, **c): a positional-only parameter
\* without default, a keyword-only one with a default and a catch-all
C11_Witness ==
    /\ Derived
    /\ last.args[1] = << Self, Param("a", POSITIONAL_ONLY, Empty),
                         Param("b", KEYWORD_ONLY, IntV(0)),
                         Param("c", VAR_KEYWORD, Empty) >>
    /\ ret = Ok(Dict([a |-> None, b |-> IntV(0)]))

\* no class of the method resolution order of c declares a constructor
NoConstructor(c) == \A i \in DOMAIN Mro(c) : ClassTable[Mro(c)[i]].init = NoInit

\* C12 as stated: a conforming class that declares no constructor of its
\* own has the empty default configuration, also when it inherits a
\* constructor with parameters from a Configurable class.
C12_NoOwnInitEmpty ==
    (DerivedFor /\ IsSubclass(last.args[1], "Configurable")
        /\ ClassTable[last.args[1]].init = NoInit) =>
        ret = Ok(Dict(EmptyMap))

\* C12, amended: a conforming class has the empty default configuration
\* when neither it nor a class it inherits from declares a constructor; a
\* class that declares none of its own but inherits one has the default
\* configuration of the constructor it inherits.
C12_NoInitEmpty ==
    (DerivedFor /\ Unoverridden /\ IsSubclass(last.args[1], "Configurable")) =>
        /\ NoConstructor(last.args[1]) => ret = Ok(Dict(EmptyMap))
        /\ (ClassTable[last.args[1]].init = NoInit /\ ~NoConstructor(last.args[1])) =>
              ret = Ok(Dict(ExpectedDefaults(
                        ClassTable[ClassTable[last.args[1]].base].init)))

\* T1Child, which declares no constructor, has the defaults of the
\* constructor of T1
C12_Witness ==
    /\ DerivedFor /\ last.args[1] = "T1Child"
    /\ ClassTable["T1Child"].init = NoInit
    /\ ret = Ok(Dict([foo |-> IntV(1), bar |-> StrV("baz")]))

(***************************************************************************)
(* Properties of from_config.                                              *)
(***************************************************************************)
\* the last call was a from_config
Built == last.op \in {"from_config", "super_from_config"}
\* the class it was called on, the mapping as it was passed and the extra
\* positional arguments
BuiltClass == last.args[1]
BuiltConfig == last.args[2]
BuiltArgs == last.args[3]
\* the implementation of Configurable ran, with a mapping and at most the
\* merge_default argument
BaseRan ==
    /\ \/ last.op = "super_from_config"
       \/ last.op = "from_config" /\ Lookup(BuiltClass, "from_config") = "Configurable"
    /\ IsDict(BuiltConfig)
    /\ Len(BuiltArgs) <= 1
\* merge_default is true
MergesDefault == BuiltArgs = << >> \/ Truthy(BuiltArgs[1])
\* the mapping c laid over the mapping d, nested mappings likewise
RECURSIVE Overlay(_, _)
Overlay(d, c) ==
    [k \in DOMAIN d \cup DOMAIN c |->
        CASE k \notin DOMAIN c -> d[k]
          [] k \notin DOMAIN d -> c[k]
          [] IsDict(d[k]) /\ IsDict(c[k]) -> Dict(Overlay(d[k].v, c[k].v))
          [] OTHER -> c[k]]

\* C13: with merge_default true the base from_config calls the constructor
\* with get_default_config() overlaid by config_dict as named arguments:
\* config_dict's value for its keys, the default for the other keys, nested
\* mappings merged recursively with config_dict winning.
C13_MergesOverDefaults ==
    (BaseRan /\ MergesDefault) =>
        /\ calls = << Call("__init__", BuiltClass, << >>,
                           Overlay(get_default_config(BuiltClass).v, BuiltConfig.v)) >>
        /\ \A k \in DOMAIN BuiltConfig.v :
              ~IsDict(BuiltConfig.v[k]) => calls[1].kw[k] = BuiltConfig.v[k]
        /\ \A k \in DOMAIN get_default_config(BuiltClass).v \ DOMAIN BuiltConfig.v :
              calls[1].kw[k] = get_default_config(BuiltClass).v[k]

\* the base from_config on T2 with {'child': {'foo': 12}}: the child handed
\* to the constructor is the nested default with foo replaced
C13_Witness ==
    /\ BaseRan /\ MergesDefault
    /\ last.op = "super_from_config" /\ BuiltClass = "T2"
    /\ BuiltConfig = Dict([child |-> Dict([foo |-> IntV(12)])])
    /\ calls[1].kw["child"] = Dict([foo |-> IntV(12), bar |-> StrV("baz")])
    /\ calls[1].kw["alpha"] = FltV("0.0001")

\* C14: constructing from a configuration never changes the caller's
\* mapping: after from_config, base or override, or from_config_dict, the
\* mapping passed in, the selected block and the nested dictionaries
\* included, is equal to what it was before the call.
C14_CallerMappingUnchanged ==
    /\ Built => config = BuiltConfig
    /\ Constructed => config = last.args[1]

\* the signature of the constructor of class c: that of object takes
\* nothing but the receiver
SignatureOf(c) == IF InitIsFunction(c) THEN ClassTable[InitClass(c)].init ELSE << Self >>
\* the named arguments kw leave a parameter without default of the
\* signature unbound
MissesRequired(func, kw) ==
    \E i \in 2..Len(func) :
        /\ func[i].kind \notin {VAR_POSITIONAL, VAR_KEYWORD}
        /\ func[i].default = Empty
        /\ func[i].name \notin DOMAIN kw
\* kw holds a key the signature does not take: no parameter that can be
\* passed by name has it, and there is no **kwargs to catch it
HoldsUnexpected(func, kw) ==
    /\ \A i \in DOMAIN func : func[i].kind # VAR_KEYWORD
    /\ \E k \in DOMAIN kw :
          \A i \in 2..Len(func) :
              func[i].name = k => func[i].kind \notin {POSITIONAL_OR_KEYWORD, KEYWORD_ONLY}

ExportOf(cls, c) ==
    \E x \in RoundTripPool : x.cls = cls /\ get_config(x) = Ok(c)

\* this step exports the configuration of the instance that cls.from_config,
\* given no further argument, has just constructed from an export of an
\* instance of cls
ExportsRoundTrip(cls) ==
    /\ last.op = "from_config"
    /\ last.args[1] = cls
    /\ last.args[3] = << >>
    /\ ExportOf(cls, last.args[2])
    /\ IsOk(ret)
    /\ last'.op = "get_config"

\* C16: round-trip idempotence.  For an instance x of a conforming class, T1
\* or the nesting T2, the configuration exported by the instance constructed
\* from x's export c1 equals c1 as it is after the construction; the step
\* from c2 to c3 is the same step taken from the export of that instance.
C16_RoundTripIdempotent ==
    [][\A cls \in {"T1", "T2"} :
          ExportsRoundTrip(cls) => IsOk(ret') /\ PyEq(config, ret'.val)]_vars

\* C16, without nesting: the round trip of T1 and its subclass is idempotent
C16_FlatRoundTrip ==
    [][\A cls \in {"T1", "T1Child"} :
          ExportsRoundTrip(cls) => IsOk(ret') /\ PyEq(config, ret'.val)]_vars

(***************************************************************************)
(* Properties of configuration_test_helper.                                *)
(***************************************************************************)
\* the last call was configuration_test_helper, on an instance of class cls
\* with no ignored parameter and no further from_config argument
HelperRanOn(cls) ==
    /\ last.op = "configuration_test_helper"
    /\ last.args[1].t = "object"
    /\ last.args[1].cls = cls
    /\ last.args[2] = {}
    /\ last.args[3] = << >>

\* the from_config calls the helper made on the class of its instance, in order
HelperConstructions ==
    SelectSeq(calls, LAMBDA c : c.fn = "from_config" /\ c.cls = last.args[1].cls)

\* the instance the i-th of them returned, and what that instance exports
HelperInstance(i) == from_config(last.args[1].cls, HelperConstructions[i].pos).ret.val
HelperInstanceConfig(i) == get_config(HelperInstance(i)).val

\* C17: configuration_test_helper follows the pattern inst -> inst-2 -> inst-3
\* and inst -> inst-4.  Of the constructions it makes, the first (inst-2) is
\* from the configuration the given instance exports, the second (inst-3) from
\* the configuration inst-2 exports, the third (inst-4) again from the given
\* instance's, and it returns the three instances in that order.
C17_HelperPattern ==
    \A cls \in {"T1", "T2"} :
        HelperRanOn(cls) =>
            /\ Len(HelperConstructions) >= 1 =>
                  HelperConstructions[1].pos[1] = get_config(last.args[1]).val
            /\ Len(HelperConstructions) >= 2 =>
                  HelperConstructions[2].pos[1] = HelperInstanceConfig(1)
            /\ Len(HelperConstructions) >= 3 =>
                  HelperConstructions[3].pos[1] = get_config(last.args[1]).val
            /\ IsOk(ret) =>
                  ret.val = << HelperInstance(1), HelperInstance(2), HelperInstance(3) >>

(***************************************************************************)
(* Candidates sharing a type identifier.                                   *)
(***************************************************************************)
\* the place of the last candidate of types whose identifier is k
LastNamed(types, k) ==
    CHOOSE i \in DOMAIN types :
        /\ IdOf(types[i]) = k
        /\ \A j \in DOMAIN types : IdOf(types[j]) = k => j <= i

\* C18: when candidates share a type identifier, the later one in iteration
\* order wins: cls_conf_from_config_dict returns the last candidate of the
\* identifier the configuration names, and each entry of make_default_config
\* holds the default configuration of the last candidate of its identifier;
\* an identifier only one candidate has keeps that candidate.
C18_LaterCandidateWins ==
    /\ (Resolved /\ IsOk(ret)) =>
          ret.val[1] = ArgTypes[LastNamed(ArgTypes, ArgConfig["type"].v)]
    /\ (MadeDefault /\ IsOk(ret)) =>
          \A i \in DOMAIN DefaultTypes :
              ret.val.v[IdOf(DefaultTypes[i])] =
                  get_default_config(
                      DefaultTypes[LastNamed(DefaultTypes, IdOf(DefaultTypes[i]))])

\* two classes named T were candidates, T1 between them and the one with a
\* keyword-only parameter last, and T was the type named: the last one was
\* returned
C18_Witness ==
    /\ Resolved /\ IsOk(ret)
    /\ ArgConfig["type"] = StrV("tests.test_configuration.T")
    /\ ArgTypes = << "T_abc", "T1", "T_kwonly" >>
    /\ ret.val[1] = "T_kwonly"

(***************************************************************************)
(* Sequences of calls to the helpers.                                      *)
(***************************************************************************)
\* the helpers that only read the mappings and candidates they are passed
ReadingHelpers ==
    {"make_default_config", "cls_conf_to_config_dict", "cls_conf_from_config_dict"}

ArgTypeSet == {ArgTypes[i] : i \in DOMAIN ArgTypes}

\* no two different candidates share a type identifier
UniqueIds == \A i \in DOMAIN ArgTypes : NamesOneClass(ArgTypes, i)

\* C20: wrapping and resolving are inverse.  With candidates of unique
\* identifiers, cls_conf_from_config_dict on cls_conf_to_config_dict(T, c),
\* T a candidate, returns (T, c), and on to_config_dict(x), x an instance of
\* a candidate, returns (class of x, x.get_config()); no resolution error
\* occurs on such a dictionary.
C20_WrapResolveInverse ==
    (Resolved /\ UniqueIds) =>
        /\ \A T \in ArgTypeSet, c \in BareConfigs :
              last.args[1] = cls_conf_to_config_dict(T, c) => ret = Ok(<< T, c >>)
        /\ \A x \in InstPool :
              (/\ x.t = "object"
               /\ x.cls \in ArgTypeSet
               /\ IsOk(to_config_dict(x).ret)
               /\ last.args[1] = to_config_dict(x).ret.val)
                  => ret = Ok(<< x.cls, get_config(x).val >>)

\* the dictionary to_config_dict returns for a T2 holding a T1 was resolved
\* with T1 and T2 as candidates: T2 and the instance's configuration came back
C20_Witness ==
    /\ Resolved
    /\ ArgTypes = << "T1", "T2" >>
    /\ DOMAIN ArgConfig = {"type", "tests.test_configuration.T2"}
    /\ ArgConfig["type"] = StrV("tests.test_configuration.T2")
    /\ ret = Ok(<< "T2", Dict([child |-> Dict([foo |-> IntV(12), bar |-> StrV("OK")]),
                               alpha |-> FltV("0.3"), beta |-> StrV("not default")]) >>)

(***************************************************************************)
(* Required parameters left out of the configuration.                      *)
(***************************************************************************)
\* the base from_config ran on a class that does not override
\* get_default_config
BaseRanOnDerivedDefaults ==
    BaseRan /\ DeclaredIn(BuiltClass, "get_default_config") = "Configurable"

\* the named parameters without a declared default of the signature func
RequiredNames(func) ==
    {func[i].name : i \in {j \in NamedParams(func) : func[j].default = Empty}}

\* the constructor was called once, with every named parameter of its
\* signature, those config_dict leaves out and that have no default as null
PassesEveryParameter ==
    /\ Len(calls) = 1
    /\ calls[1].fn = "__init__"
    /\ \A i \in NamedParams(SignatureOf(BuiltClass)) :
          SignatureOf(BuiltClass)[i].name \in DOMAIN calls[1].kw
    /\ \A k \in RequiredNames(SignatureOf(BuiltClass)) \ DOMAIN BuiltConfig.v :
          calls[1].kw[k] = None

\* the constructor was called with exactly config_dict, and failed with its
\* TypeError if that leaves out a parameter without default
PassesConfigOnly ==
    /\ calls = << Call("__init__", BuiltClass, << >>, BuiltConfig.v) >>
    /\ MissesRequired(SignatureOf(BuiltClass), BuiltConfig.v) =>
          ret.kind = "TypeError"

\* C21: with merge_default true and an un-overridden get_default_config the
\* base from_config passes every named non-variadic constructor parameter,
\* so that a required parameter absent from config_dict is passed as null
\* and no missing-parameter failure occurs; with merge_default false the
\* constructor receives exactly the keys of config_dict and the omission
\* fails with the constructor's TypeError.
C21_RequiredPassedAsNull ==
    BaseRanOnDerivedDefaults =>
        /\ MergesDefault =>
              /\ PassesEveryParameter
              /\ ~(ret.kind = "TypeError" /\ ret.why = "missing-argument")
        /\ ~MergesDefault => PassesConfigOnly

\* C21, for constructors whose named parameters can all be passed by name:
\* none is of the positional-only kind
C21_KeywordParametersPassedAsNull ==
    (/\ BaseRanOnDerivedDefaults
     /\ \A i \in NamedParams(SignatureOf(BuiltClass)) :
            SignatureOf(BuiltClass)[i].kind # POSITIONAL_ONLY) =>
        /\ MergesDefault =>
              /\ PassesEveryParameter
              /\ ~(ret.kind = "TypeError" /\ ret.why = "missing-argument")
        /\ ~MergesDefault => PassesConfigOnly

\* the conforming class with the constructor (a, b, cat) was constructed from
\* {'a': 1} with merge_default true: b and cat were passed as null
C21_KeywordWitness ==
    /\ BaseRanOnDerivedDefaults /\ MergesDefault
    /\ BuiltClass = "T_concrete"
    /\ BuiltConfig = Dict([a |-> IntV(1)])
    /\ ret = Ok(Obj("T_concrete", [a |-> IntV(1), b |-> None, cat |-> None]))

====
